---- MODULE Spec2Model ----
(***************************************************************************)
(* KeyHashSet<T, K> of src/key_set.rs: a set of values of type T that is   *)
(* deduplicated by a key of type K derived from each value by a            *)
(* caller-supplied function get_key.  Two sets, A and B, are built from    *)
(* the same key function; every method of the KeySet trait is an action.   *)
(* The methods that take another set borrow both immutably, so a call      *)
(* with other aliasing self behaves as the call on two sets with equal     *)
(* contents; the binary actions therefore take the two distinct sets.      *)
(*                                                                         *)
(* The HashMap<K, T> field _value_map is a set of <<key, value>> entries;  *)
(* the HashMap_* operators below are the std operations the code calls.    *)
(* Option<T> is a sequence: None is <<>>, Some(v) is <<v>>.                *)
(***************************************************************************)
EXTENDS Integers, FiniteSets, Sequences, TLC

\* ---------------------------------------------------------------- bounds
\* Values of type T are 0..MaxVal, keys of type K are 0..KeyMod-1.
MaxVal == 3
KeyMod == 3

Values == 0..MaxVal
Keys == 0..(KeyMod - 1)
SetNames == {"A", "B"}

VARIABLES
    value_map,  \* value_map[s]: the _value_map field of set s
    pre_map,    \* value_map as it was when the last call started
    op,         \* name of the last method called
    self,       \* the set the last call had as self
    other,      \* the set the last call had as other (self for unary calls)
    arg,        \* the value argument of the last call
    ret,        \* what the last call returned
    live        \* live[s]: keys inserted into s and not removed since

vars == <<value_map, pre_map, op, self, other, arg, ret, live>>

\* ------------------------------------------------------------ Option<T>
None == <<>>
Some(v) == <<v>>

\* The key function handed to new(): remainder by KeyMod.
get_key(value) == value % KeyMod

\* -------------------------------------------------------- HashMap<K, T>
HashMap_new == {}

HashMap_insert(m, key, value) == {p \in m : p[1] # key} \cup {<<key, value>>}

HashMap_contains_key(m, key) == \E p \in m : p[1] = key

HashMap_get(m, key) ==
    IF \E p \in m : p[1] = key
    THEN Some((CHOOSE p \in m : p[1] = key)[2])
    ELSE None

HashMap_remove(m, key) ==
    [map |-> {p \in m : p[1] # key}, ret |-> HashMap_get(m, key)]

HashMap_len(m) == Cardinality(m)

HashMap_values(m) == {p[2] : p \in m}

\* All the orders in which the elements of S can be laid out in a Vec.
RECURSIVE Perms(_)
Perms(S) ==
    IF S = {} THEN {<<>>}
    ELSE UNION {{<<x>> \o p : p \in Perms(S \ {x})} : x \in S}


\* ----------------------------------------------------------- KeyHashSet
new == HashMap_new

\* insert with a fault: the value itself is used as the key.
insert_rawKey(m, value) == HashMap_insert(m, value, value)

\* insert with a fault: a stored value is kept when its key is inserted again.
insert_keepFirst(m, value) ==
    IF HashMap_contains_key(m, get_key(value)) THEN m
    ELSE HashMap_insert(m, get_key(value), value)

insert(m, value) ==
    LET key == get_key(value)
    IN  HashMap_insert(m, key, value)

contains(m, value) ==
    LET key == get_key(value)
    IN  HashMap_contains_key(m, key)

\* remove with a fault: only an entry holding exactly this value is removed.
remove_byValue(m, value) ==
    [map |-> m \ {<<get_key(value), value>>},
     ret |-> HashMap_contains_key(m, get_key(value))]

remove(m, value) ==
    LET key == get_key(value)
        r == HashMap_remove(m, key)
    IN  [map |-> r.map, ret |-> IF r.ret = None THEN FALSE ELSE TRUE]

\* take with a fault: the argument is handed back, not the stored value.
take_echo(m, value) ==
    [map |-> HashMap_remove(m, get_key(value)).map,
     ret |-> IF HashMap_contains_key(m, get_key(value))
             THEN Some(value) ELSE None]

take(m, value) ==
    LET key == get_key(value)
    IN  HashMap_remove(m, key)

get(m, value) ==
    LET key == get_key(value)
    IN  HashMap_get(m, key)

len(m) == HashMap_len(m)

\* The possible results of iter(): the stored values in any order.
iter(m) == Perms(HashMap_values(m))

\* for v in vec { new_set.insert(v.clone()) }
RECURSIVE insert_each(_, _)
insert_each(new_set, vec) ==
    IF vec = <<>> THEN new_set
    ELSE insert_each(insert(new_set, Head(vec)), Tail(vec))

\* is_subset with a fault: stored values are compared, not keys.
is_subset_byValue(m, o) ==
    \A x \in HashMap_values(m) : x \in HashMap_values(o)

\* iter().all(p) holds iff p holds of every stored value, in whatever order
\* iter() yields them.
is_subset(m, o) == \A x \in HashMap_values(m) : contains(o, x)

is_superset(m, o) == \A x \in HashMap_values(o) : contains(m, x)

is_empty(m) == len(m) = 0

is_disjoint(m, o) == \A x \in HashMap_values(o) : ~contains(m, x)

\* The set-algebra methods: the set of results the iteration orders allow.
\* Iterator::filter on a Vec is SelectSeq.
\* The chained loop runs through self.iter() and then through other.iter().
intersection(m, o) ==
    LET after_self == {insert_each(new, sit) : sit \in iter(m)}
    IN  {insert_each(new_set, oit) : new_set \in after_self, oit \in iter(o)}

union(m, o) ==
    {insert_each(new, SelectSeq(sit, LAMBDA v : contains(o, v))) : sit \in iter(m)}

\* difference with a fault: the filter keeps what other contains.
difference_kept(m, o) ==
    {insert_each(new, SelectSeq(sit, LAMBDA v : contains(o, v))) : sit \in iter(m)}

difference(m, o) ==
    {insert_each(new, SelectSeq(sit, LAMBDA v : ~contains(o, v))) : sit \in iter(m)}

\* symmetric_difference with a fault: the second loop is missing.
symmetric_difference_half(m, o) ==
    {insert_each(new, SelectSeq(sit, LAMBDA v : ~contains(o, v))) : sit \in iter(m)}

symmetric_difference(m, o) ==
    LET after_self ==
            {insert_each(new, SelectSeq(sit, LAMBDA v : ~contains(o, v)))
                : sit \in iter(m)}
    IN  {insert_each(new_set, SelectSeq(oit, LAMBDA v : ~contains(m, v)))
            : new_set \in after_self, oit \in iter(o)}

eq(m, o) == is_subset(m, o) /\ is_subset(o, m)

\* ---------------------------------------------------------------- state
Init ==
    /\ value_map = [s \in SetNames |-> new]
    /\ pre_map = [s \in SetNames |-> new]
    /\ op = "new"
    /\ self = "A"
    /\ other = "A"
    /\ arg = 0
    /\ ret = "unit"
    /\ live = [s \in SetNames |-> {}]

\* A call s.name(&value) that leaves both sets as they are.
Query(name, s, o, value, result) ==
    /\ op' = name
    /\ self' = s
    /\ other' = o
    /\ arg' = value
    /\ ret' = result
    /\ pre_map' = value_map
    /\ UNCHANGED <<value_map, live>>

Insert ==
    \E s \in SetNames, value \in Values :
        /\ value_map' = [value_map EXCEPT ![s] = insert(@, value)]
        /\ live' = [live EXCEPT ![s] = @ \cup {get_key(value)}]
        /\ pre_map' = value_map
        /\ op' = "insert" /\ self' = s /\ other' = s /\ arg' = value
        /\ ret' = "unit"

Remove ==
    \E s \in SetNames, value \in Values :
        LET r == remove(value_map[s], value)
        IN  /\ value_map' = [value_map EXCEPT ![s] = r.map]
            /\ live' = [live EXCEPT ![s] = @ \ {get_key(value)}]
            /\ pre_map' = value_map
            /\ op' = "remove" /\ self' = s /\ other' = s /\ arg' = value
            /\ ret' = r.ret

Take ==
    \E s \in SetNames, value \in Values :
        LET r == take(value_map[s], value)
        IN  /\ value_map' = [value_map EXCEPT ![s] = r.map]
            /\ live' = [live EXCEPT ![s] = @ \ {get_key(value)}]
            /\ pre_map' = value_map
            /\ op' = "take" /\ self' = s /\ other' = s /\ arg' = value
            /\ ret' = r.ret

Contains ==
    \E s \in SetNames, value \in Values :
        Query("contains", s, s, value, contains(value_map[s], value))

Get ==
    \E s \in SetNames, value \in Values :
        Query("get", s, s, value, get(value_map[s], value))

CallLen ==
    \E s \in SetNames : Query("len", s, s, 0, len(value_map[s]))

IsEmpty ==
    \E s \in SetNames : Query("is_empty", s, s, 0, is_empty(value_map[s]))

IsSubset ==
    \E s \in SetNames : \E o \in SetNames \ {s} :
        Query("is_subset", s, o, 0, is_subset(value_map[s], value_map[o]))

IsSuperset ==
    \E s \in SetNames : \E o \in SetNames \ {s} :
        Query("is_superset", s, o, 0, is_superset(value_map[s], value_map[o]))

IsDisjoint ==
    \E s \in SetNames : \E o \in SetNames \ {s} :
        Query("is_disjoint", s, o, 0, is_disjoint(value_map[s], value_map[o]))

Eq ==
    \E s \in SetNames : \E o \in SetNames \ {s} :
        Query("eq", s, o, 0, eq(value_map[s], value_map[o]))

Intersection ==
    \E s \in SetNames : \E o \in SetNames \ {s} :
        \E new_set \in intersection(value_map[s], value_map[o]) :
            Query("intersection", s, o, 0, new_set)

Union ==
    \E s \in SetNames : \E o \in SetNames \ {s} :
        \E new_set \in union(value_map[s], value_map[o]) :
            Query("union", s, o, 0, new_set)

Difference ==
    \E s \in SetNames : \E o \in SetNames \ {s} :
        \E new_set \in difference(value_map[s], value_map[o]) :
            Query("difference", s, o, 0, new_set)

SymmetricDifference ==
    \E s \in SetNames : \E o \in SetNames \ {s} :
        \E new_set \in symmetric_difference(value_map[s], value_map[o]) :
            Query("symmetric_difference", s, o, 0, new_set)

Next ==
    \/ Insert
    \/ Remove
    \/ Take
    \/ Contains
    \/ Get
    \/ CallLen
    \/ IsEmpty
    \/ IsSubset
    \/ IsSuperset
    \/ IsDisjoint
    \/ Eq
    \/ Intersection
    \/ Union
    \/ Difference
    \/ SymmetricDifference

Spec == Init /\ [][Next]_vars

\* ------------------------------------------------------------- notation
\* The keys a value map stores.
KeysOf(m) == {p[1] : p \in m}

\* The maps the last call saw and left behind.
SelfMap == value_map[self]
OtherMap == value_map[other]
SelfBefore == pre_map[self]
OtherBefore == pre_map[other]

\* --------------------------------------------------------------- claims

\* C1: A.union(B) contains exactly the keys present in A or in B.
C1_UnionHoldsKeysOfEither ==
    op = "union" => KeysOf(ret) = KeysOf(SelfMap) \cup KeysOf(OtherMap)

\* C2: A.intersection(B) contains exactly the keys present in both A and B.
C2_IntersectionHoldsKeysOfBoth ==
    op = "intersection" => KeysOf(ret) = KeysOf(SelfMap) \cap KeysOf(OtherMap)

\* C3: after any sequence of insert, remove and take calls, len() is the
\* number of distinct keys inserted and not removed since; a set holds at
\* most one entry per key; inserting a value that is already stored leaves
\* len() as it was.
C3_LenCountsLiveKeys ==
    \A s \in SetNames :
        /\ KeysOf(value_map[s]) = live[s]
        /\ len(value_map[s]) = Cardinality(live[s])
        /\ \A p \in value_map[s], q \in value_map[s] : p[1] = q[1] => p = q
        /\ (op = "insert" /\ self = s /\ arg \in HashMap_values(pre_map[s]))
               => len(value_map[s]) = len(pre_map[s])

\* C3 witness: an insert of a value that was already stored, into a set of
\* two keys, which still has length two.
C3_Witness ==
    /\ op = "insert"
    /\ arg \in HashMap_values(SelfBefore)
    /\ Cardinality(live[self]) = 2
    /\ len(SelfMap) = 2

\* C4: inserting v2 where a different value v1 of the same key is stored
\* leaves exactly one entry for that key, and get with any value of that key
\* returns v2.
C4_OverwriteLaw ==
    (/\ op = "insert"
     /\ \E p \in SelfBefore : p[1] = get_key(arg) /\ p[2] # arg)
    => /\ {p \in SelfMap : p[1] = get_key(arg)} = {<<get_key(arg), arg>>}
       /\ \A w \in Values :
              get_key(w) = get_key(arg) => get(SelfMap, w) = Some(arg)
       /\ len(SelfMap) = len(SelfBefore)

\* C4 witness: an insert over a different stored value of the same key,
\* after which get with the earlier value returns the inserted one.
C4_Witness ==
    /\ op = "insert"
    /\ \E p \in SelfBefore :
           /\ p[1] = get_key(arg)
           /\ p[2] # arg
           /\ get(SelfMap, p[2]) = Some(arg)

\* C5: remove(v) returns true iff the key of v was stored; afterwards
\* contains(v) is false; when the key was absent the set is unchanged;
\* entries at other keys are never affected.
C5_RemoveContract ==
    op = "remove" =>
        LET key == get_key(arg)
            present == key \in KeysOf(SelfBefore)
        IN  /\ ret = present
            /\ ~contains(SelfMap, arg)
            /\ ~present => (SelfMap = SelfBefore /\ len(SelfMap) = len(SelfBefore))
            /\ {p \in SelfMap : p[1] # key} = {p \in SelfBefore : p[1] # key}
            /\ \A s \in SetNames \ {self} : value_map[s] = pre_map[s]

\* C5 witness: a remove that returned true for a value other than the stored
\* one and left an entry at another key in place.
C5_Witness ==
    /\ op = "remove"
    /\ ret = TRUE
    /\ arg \notin HashMap_values(SelfBefore)
    /\ SelfMap # {}

\* C6: take(v) changes the set exactly as remove(v) does and returns the
\* value that was stored at the key of v, which may differ from v; with the
\* key absent it returns nothing and changes nothing.
C6_TakeContract ==
    op = "take" =>
        LET key == get_key(arg)
        IN  /\ SelfMap = remove(SelfBefore, arg).map
            /\ key \notin KeysOf(SelfMap)
            /\ {p \in SelfMap : p[1] # key} = {p \in SelfBefore : p[1] # key}
            /\ IF key \in KeysOf(SelfBefore)
               THEN \E p \in SelfBefore : p[1] = key /\ ret = Some(p[2])
               ELSE ret = None /\ SelfMap = SelfBefore
            /\ \A s \in SetNames \ {self} : value_map[s] = pre_map[s]

\* C6 witness: a take that returned a stored value different from its
\* argument.
C6_Witness ==
    /\ op = "take"
    /\ ret # None
    /\ ret # Some(arg)
    /\ SelfBefore # SelfMap

\* C7: A.symmetric_difference(B) contains exactly the keys present in
\* exactly one of A and B, each with the value of the set that holds it.
C7_SymmetricDifference ==
    op = "symmetric_difference" =>
        /\ KeysOf(ret) = (KeysOf(SelfMap) \ KeysOf(OtherMap))
                             \cup (KeysOf(OtherMap) \ KeysOf(SelfMap))
        /\ \A p \in ret :
               IF p[1] \in KeysOf(SelfMap) THEN p \in SelfMap ELSE p \in OtherMap

\* C7 witness: a symmetric difference of two sets that share a key and each
\* hold a key the other lacks.
C7_Witness ==
    /\ op = "symmetric_difference"
    /\ KeysOf(SelfMap) \cap KeysOf(OtherMap) # {}
    /\ KeysOf(SelfMap) \ KeysOf(OtherMap) # {}
    /\ KeysOf(OtherMap) \ KeysOf(SelfMap) # {}
    /\ Cardinality(ret) = 2

\* C8: A.difference(B) contains exactly the keys present in A and absent
\* from B, each with the value A stores, and leaves A and B unchanged.
C8_Difference ==
    op = "difference" =>
        /\ KeysOf(ret) = KeysOf(SelfMap) \ KeysOf(OtherMap)
        /\ ret \subseteq SelfMap
        /\ value_map = pre_map

\* C8 witness: a difference that dropped a shared key and kept another.
C8_Witness ==
    /\ op = "difference"
    /\ ret # {}
    /\ ret # SelfMap
    /\ KeysOf(OtherMap) \ KeysOf(SelfMap) # {}

\* C9: A.is_disjoint(B) returns the same boolean as
\* A.intersection(B).is_empty().
C9_DisjointIffIntersectionEmpty ==
    op = "is_disjoint" =>
        \A new_set \in intersection(SelfMap, OtherMap) : ret = is_empty(new_set)

\* C10: A == B holds iff A.is_subset(B) and B.is_subset(A), which holds iff
\* A and B store the same keys, whatever values are stored at them.
C10_EqIsSameKeys ==
    op = "eq" =>
        /\ ret = (is_subset(SelfMap, OtherMap) /\ is_subset(OtherMap, SelfMap))
        /\ ret = (KeysOf(SelfMap) = KeysOf(OtherMap))

\* C10 witness: two sets found equal that store different values at a key.
C10_Witness ==
    /\ op = "eq"
    /\ ret = TRUE
    /\ SelfMap # OtherMap
    /\ SelfMap # {}

====
